---- MODULE Spec2Model ----
(***************************************************************************)
(* Model of check_rec_gov.py: the monthly availability aggregator          *)
(* (get_park_information), the site counter (get_num_available_sites), the *)
(* range compactor (consecutive_nights) and the driver (check_park, main). *)
(*                                                                         *)
(* Representation of Python values:                                        *)
(*   datetime at midnight          <<y, m, d>>                             *)
(*   "%Y-%m-%dT00:00:00Z" string   [iso |-> <<y, m, d>>]                   *)
(*   "%Y-%m-%d" string             [ymd |-> <<y, m, d>>]                   *)
(*   date.toordinal()              proleptic Gregorian day number          *)
(*   list                          sequence                                *)
(*   dict                          function, iterated by ascending key     *)
(*   str(n) of a site id           [str |-> n]                             *)
(*   nights=None                   <<>>,  nights=n   <<n>>                 *)
(***************************************************************************)
EXTENDS Integers, Sequences, FiniteSets, TLC

VARIABLES
    pc,               \* position of the running call
    caller,           \* "" for a direct call, "check_park" under the driver
    available,        \* consecutive_nights: argument `available`
    nights,           \* `nights` as consecutive_nights receives it
    ranges,           \* consecutive_nights: the returned list
    park_information, \* get_num_available_sites: site id string -> date list
    start_date,       \* window start (datetime)
    end_date,         \* window end (datetime)
    nights_arg,       \* get_num_available_sites: argument `nights`
    maximum,          \* get_num_available_sites: local `maximum`
    num_available,    \* get_num_available_sites: local `num_available`
    num_days,         \* get_num_available_sites: local `num_days`
    dates,            \* get_num_available_sites: local set `dates`
    todo,             \* sites the for loop of line 130 has still to visit
    by_site,          \* available_dates_by_campsite_id
    park_id,          \* get_park_information / check_park: argument
    campsite_type,    \* get_park_information: filter ("" when none)
    campsite_ids,     \* get_park_information: allow-list (<<>> when none)
    months,           \* get_park_information: local list `months`
    api_data,         \* get_park_information: local list `api_data`
    data,             \* get_park_information: site id string -> date list
    data2,            \* get_park_information: site id string -> metadata
    fetch_log,        \* the requests the availability endpoint has received:
                      \* <<park id, month date, "ok" or "error">>
    site_type,        \* the endpoint's catalogue: site id string -> type
    parks,            \* main: params['parks']
    park_i,           \* main: position of the loop of line 411
    park_name,        \* check_park: local `park_name`
    info_by_park_id,  \* main: local dict
    output_html,      \* output.html: <<>> until written, then <<document>>
    error             \* the exception that ended the run, "" when none

nightsVars == <<available, ranges>>
sitesVars == <<park_information, nights_arg, maximum, num_available, num_days,
               dates, todo, by_site>>
windowVars == <<start_date, end_date>>
parkVars == <<park_id, campsite_type, campsite_ids, months, api_data, data,
              data2, fetch_log, site_type>>
mainVars == <<parks, park_i, park_name, info_by_park_id, output_html, error>>
vars == <<pc, caller, nights, nightsVars, sitesVars, windowVars, parkVars,
          mainVars>>

-----------------------------------------------------------------------------
(* Bounds of the model *)

\* longest date list handed to consecutive_nights
MaxLen == 4
\* number of consecutive calendar days the dates are drawn from
SpanDays == 5
\* most dates a park's sites hold together in get_num_available_sites' input
MaxEntries == 3

\* the elements of a list
SeqRange(s) == {s[i] : i \in 1..Len(s)}

-----------------------------------------------------------------------------
(* datetime arithmetic (proleptic Gregorian calendar) *)

IsLeap(y) == (y % 4 = 0 /\ y % 100 # 0) \/ y % 400 = 0

DaysInMonth(y, m) ==
    CASE m \in {1, 3, 5, 7, 8, 10, 12} -> 31
      [] m \in {4, 6, 9, 11} -> 30
      [] OTHER -> IF IsLeap(y) THEN 29 ELSE 28

RECURSIVE DaysBeforeMonth(_, _)
DaysBeforeMonth(y, m) ==
    IF m <= 1 THEN 0 ELSE DaysBeforeMonth(y, m - 1) + DaysInMonth(y, m - 1)

DaysBeforeYear(y) ==
    LET p == y - 1 IN p * 365 + (p \div 4) - (p \div 100) + (p \div 400)

\* datetime.toordinal(): 0001-01-01 is day 1
toordinal(dt) == DaysBeforeYear(dt[1]) + DaysBeforeMonth(dt[1], dt[2]) + dt[3]

RECURSIVE YearOfOrdinal(_, _)
YearOfOrdinal(n, y) ==
    IF n <= DaysBeforeYear(y + 1) THEN y ELSE YearOfOrdinal(n, y + 1)

RECURSIVE MonthOfOrdinal(_, _, _)
MonthOfOrdinal(n, y, m) ==
    IF n <= DaysBeforeYear(y) + DaysBeforeMonth(y, m + 1)
    THEN m
    ELSE MonthOfOrdinal(n, y, m + 1)

\* datetime.fromordinal(n)
fromordinal(n) ==
    LET y == YearOfOrdinal(n, (n \div 366) + 1)
        m == MonthOfOrdinal(n, y, 1)
    IN  <<y, m, n - DaysBeforeYear(y) - DaysBeforeMonth(y, m)>>

\* datetime.strptime(dstr, DateFormat.ISO_DATE_FORMAT_RESPONSE.value)
strptime_iso(dstr) == dstr.iso

\* formatter.format_date(dt, format_string=DateFormat.ISO_DATE_FORMAT_RESPONSE.value)
format_iso(dt) == [iso |-> dt]

\* formatter.format_date(dt, format_string=DateFormat.INPUT_DATE_FORMAT.value)
format_input(dt) == [ymd |-> dt]

-----------------------------------------------------------------------------
(* consecutive_nights *)

\* lines 167-172: the ordinals of the date strings, in list order
OrdinalDates(avail) ==
    [i \in 1..Len(avail) |-> toordinal(strptime_iso(avail[i]))]

\* lines 173-177: itertools.groupby with key x - next(c): the list is cut
\* wherever the key changes; c counts the elements from 0.
RECURSIVE GroupFrom(_, _, _, _)
GroupFrom(ords, i, cur, done) ==
    IF i > Len(ords)
    THEN IF cur = <<>> THEN done ELSE Append(done, cur)
    ELSE IF cur = <<>>
         THEN GroupFrom(ords, i + 1, <<ords[i]>>, done)
         ELSE IF ords[i] - (i - 1) = ords[i - 1] - (i - 2)
              THEN GroupFrom(ords, i + 1, Append(cur, ords[i]), done)
              ELSE GroupFrom(ords, i + 1, <<ords[i]>>, Append(done, cur))

ConsecutiveRanges(ords) == GroupFrom(ords, 1, <<>>, <<>>)

\* a slip in line 190: the last night taken for the checkout date
WindowPairLastNight(r, start_index, n) ==
    <<format_input(fromordinal(r[start_index])),
      format_input(fromordinal(r[start_index + n - 1]))>>

\* lines 185-193: the (start, end) pair of the window of r at start_index
\* (0-based in the source, 1-based here)
WindowPair(r, start_index, n) ==
    <<format_input(fromordinal(r[start_index])),
      format_input(fromordinal(r[start_index + n - 1] + 1))>>

\* a slip in line 184: the start indices taken from the end of the run
WindowsOfRunDescending(r, n) ==
    [k \in 1..(Len(r) - n + 1) |-> WindowPair(r, Len(r) - n + 2 - k, n)]

\* lines 184-193: the windows of one run, by ascending start index
WindowsOfRun(r, n) ==
    [k \in 1..(Len(r) - n + 1) |-> WindowPair(r, k, n)]

\* lines 179-195
RECURSIVE LongEnough(_, _, _, _)
LongEnough(groups, g, n, out) ==
    IF g > Len(groups)
    THEN out
    ELSE IF Len(groups[g]) < n
         THEN LongEnough(groups, g + 1, n, out)
         ELSE LongEnough(groups, g + 1, n, out \o WindowsOfRun(groups[g], n))

consecutive_nights(avail, n) ==
    LongEnough(ConsecutiveRanges(OrdinalDates(avail)), 1, n, <<>>)

-----------------------------------------------------------------------------
(* Inputs *)

Anchors == {<<2023, 12, 30>>, <<2024, 2, 27>>, <<2023, 2, 26>>}

DayUniverse(anchor) ==
    {fromordinal(toordinal(anchor) + k) : k \in 0..(SpanDays - 1)}

IsoDates(anchor) == {format_iso(d) : d \in DayUniverse(anchor)}

SeqsUpTo(S, n) == UNION {[1..k -> S] : k \in 0..n}

-----------------------------------------------------------------------------
(* SpecNights: consecutive_nights applied to every bounded date list *)

IdleSites ==
    /\ park_information = <<>>
    /\ nights_arg = <<>>
    /\ maximum = 0
    /\ num_available = 0
    /\ num_days = 0
    /\ dates = {}
    /\ todo = <<>>
    /\ by_site = <<>>

IdleWindow ==
    /\ start_date = <<1, 1, 1>>
    /\ end_date = <<1, 1, 1>>

IdlePark ==
    /\ park_id = 0
    /\ campsite_type = ""
    /\ campsite_ids = <<>>
    /\ months = <<>>
    /\ api_data = <<>>
    /\ data = <<>>
    /\ data2 = <<>>
    /\ fetch_log = <<>>

IdleMain ==
    /\ parks = <<>>
    /\ park_i = 0
    /\ park_name = [kind |-> "none", of |-> 0]
    /\ info_by_park_id = <<>>
    /\ output_html = <<>>
    /\ error = ""

InitNights ==
    /\ pc = "call"
    /\ caller = ""
    /\ \E a \in Anchors : available \in SeqsUpTo(IsoDates(a), MaxLen)
    /\ nights \in 1..SpanDays
    /\ ranges = <<>>
    /\ IdleSites
    /\ IdleWindow
    /\ IdlePark
    /\ site_type = <<>>
    /\ IdleMain

CallConsecutiveNights ==
    /\ pc = "call"
    /\ ranges' = consecutive_nights(available, nights)
    /\ pc' = "returned"
    /\ UNCHANGED <<caller, available, nights, sitesVars, windowVars, parkVars,
                   mainVars>>

NextNights == CallConsecutiveNights

SpecNights == InitNights /\ [][NextNights]_vars

-----------------------------------------------------------------------------
(* get_num_available_sites *)

\* int(site) of line 152
int_of(site) == site.str

\* end_date - timedelta(days=i)
minus_days(dt, i) == fromordinal(toordinal(dt) - i)

\* a slip in line 117: range(0, num_days) for range(1, num_days + 1)
WindowDateStringsShifted(start, end) ==
    {format_iso(minus_days(end, i)) : i \in 0..(toordinal(end) - toordinal(start) - 1)}

\* lines 116-123: the ISO strings of the num_days days before end_date
WindowDateStrings(start, end) ==
    {format_iso(minus_days(end, i)) : i \in 1..(toordinal(end) - toordinal(start))}

\* lines 125-126: nights not in range(1, num_days + 1)
ClampNights(n_arg, n_days) ==
    IF n_arg = <<>> \/ n_arg[1] \notin 1..n_days THEN n_days ELSE n_arg[1]

\* lines 132-137: the dates of the site that are in the window, in list order
DesiredAvailable(availabilities, wanted) ==
    SelectSeq(availabilities, LAMBDA d : d \in wanted)

\* lines 150-154: the ranges as {"start": ..., "end": ...} entries
RangeEntries(rs) == [i \in 1..Len(rs) |-> [start |-> rs[i][1], end |-> rs[i][2]]]

\* defaultdict(list)[key].append for each entry
AppendAll(d, key, entries) ==
    IF entries = <<>> THEN d
    ELSE IF key \in DOMAIN d
         THEN [d EXCEPT ![key] = @ \o entries]
         ELSE [k \in DOMAIN d \cup {key} |-> IF k = key THEN entries ELSE d[k]]

\* a slip in lines 146-147: a site counted as soon as it has a date in the window
CountsAsAvailableAnyDate(desired, rs) == desired # <<>>

\* line 146: the site has at least one range
CountsAsAvailable(desired, rs) == rs # <<>>

\* the order in which the dict is iterated: ascending site number
RECURSIVE SitesInOrder(_)
SitesInOrder(S) ==
    IF S = {} THEN <<>>
    ELSE LET s == CHOOSE x \in S : \A y \in S : int_of(x) <= int_of(y)
         IN  <<s>> \o SitesInOrder(S \ {s})

\* lines 113-129
EnterGetNumAvailableSites ==
    /\ pc = "get_num_available_sites"
    /\ maximum' = Cardinality(DOMAIN park_information)
    /\ num_available' = 0
    /\ num_days' = toordinal(end_date) - toordinal(start_date)
    /\ dates' = WindowDateStrings(start_date, end_date)
    /\ nights' = ClampNights(nights_arg, num_days')
    /\ by_site' = <<>>
    /\ todo' = SitesInOrder(DOMAIN park_information)
    /\ pc' = "site_loop"
    /\ UNCHANGED <<caller, nightsVars, park_information, nights_arg, windowVars,
                   parkVars, mainVars>>

\* lines 130-154: one iteration of the loop over the sites
SiteStep ==
    /\ pc = "site_loop"
    /\ todo # <<>>
    /\ LET site == Head(todo)
           desired_available == DesiredAvailable(park_information[site], dates)
           appropriate == IF desired_available = <<>>
                          THEN <<>>
                          ELSE consecutive_nights(desired_available, nights)
       IN  /\ num_available' =
                 IF desired_available # <<>>
                    /\ CountsAsAvailable(desired_available, appropriate)
                 THEN num_available + 1
                 ELSE num_available
           /\ by_site' = AppendAll(by_site, int_of(site), RangeEntries(appropriate))
    /\ todo' = Tail(todo)
    /\ UNCHANGED <<pc, caller, nights, nightsVars, park_information, nights_arg,
                   maximum, num_days, dates, windowVars, parkVars, mainVars>>

\* line 156
ReturnSites ==
    /\ pc = "site_loop"
    /\ todo = <<>>
    /\ pc' = IF caller = "check_park" THEN "check_park_return" ELSE "counted"
    /\ UNCHANGED <<caller, nights, nightsVars, sitesVars, windowVars, parkVars,
                   mainVars>>

-----------------------------------------------------------------------------
(* SpecSites: get_num_available_sites applied to bounded inputs *)

SiteKeys == {[str |-> 101], [str |-> 102]}

RECURSIVE TotalEntries(_, _)
TotalEntries(info, S) ==
    IF S = {} THEN 0
    ELSE LET s == CHOOSE x \in S : TRUE
         IN  Len(info[s]) + TotalEntries(info, S \ {s})

ParkInformations(a) ==
    UNION {{info \in [D -> SeqsUpTo(IsoDates(a), MaxEntries)] :
                TotalEntries(info, D) <= MaxEntries} : D \in SUBSET SiteKeys}

\* the window starts on the second day of the universe and ends on any day
InitSites ==
    /\ pc = "get_num_available_sites"
    /\ caller = ""
    /\ \E a \in {<<2023, 12, 30>>} :
          /\ park_information \in ParkInformations(a)
          /\ start_date = fromordinal(toordinal(a) + 1)
          /\ end_date \in DayUniverse(a)
    /\ nights_arg \in {<<>>} \cup {<<n>> : n \in (0 - 1)..(SpanDays - 2)}
    /\ nights = 0
    /\ available = <<>>
    /\ ranges = <<>>
    /\ maximum = 0
    /\ num_available = 0
    /\ num_days = 0
    /\ dates = {}
    /\ todo = <<>>
    /\ by_site = <<>>
    /\ IdlePark
    /\ site_type = <<>>
    /\ IdleMain

NextSites == EnterGetNumAvailableSites \/ SiteStep \/ ReturnSites

SpecSites == InitSites /\ [][NextSites]_vars

-----------------------------------------------------------------------------
(* The availability endpoint (RecreationClient.get_availability) *)

Statuses == {"Available", "Reserved"}

\* the dates a month's response reports on: the first and the last of the month
SampleDates(month_date) ==
    {format_iso(month_date),
     format_iso(<<month_date[1], month_date[2],
                  DaysInMonth(month_date[1], month_date[2])>>)}

\* descriptive fields of the sites: (rank of loop.lower(), rank of site label)
SiteLabels == ([str |-> 101] :> [loop |-> "B", site |-> "002", key |-> <<2, 2>>])
           @@ ([str |-> 102] :> [loop |-> "a", site |-> "001", key |-> <<1, 1>>])

\* one campsite entry of month_data["campsites"]
CampsiteRecord(site, avail) ==
    [campsite_id |-> site,
     campsite_type |-> site_type[site],
     loop |-> SiteLabels[site].loop,
     site |-> SiteLabels[site].site,
     availabilities |-> avail]

\* the responses the endpoint can give for a month: any subset of its sites,
\* each with any status on each reported date
Responses(month_date) ==
    UNION {{[campsites |-> [site \in D |-> CampsiteRecord(site, f[site])]] :
               f \in [D -> [SampleDates(month_date) -> Statuses]]} :
           D \in SUBSET DOMAIN site_type}

-----------------------------------------------------------------------------
(* get_park_information *)

NextMonth(month_date) ==
    IF month_date[2] = 12
    THEN <<month_date[1] + 1, 1, 1>>
    ELSE <<month_date[1], month_date[2] + 1, 1>>

\* rrule.rrule(MONTHLY, dtstart=first, until=until): first, first + 1 month,
\* ... as long as the date is not after until
RECURSIVE MonthlyUntil(_, _)
MonthlyUntil(first, until) ==
    IF toordinal(first) > toordinal(until)
    THEN <<>>
    ELSE <<first>> \o MonthlyUntil(NextMonth(first), until)

\* a slip in lines 56-58: the last month left out when the window ends on its
\* first day
MonthsOfWindowExclusive(start, end) ==
    MonthlyUntil(<<start[1], start[2], 1>>, minus_days(end, 1))

\* lines 56-59
MonthsOfWindow(start, end) == MonthlyUntil(<<start[1], start[2], 1>>, end)

\* the order in which a dict keyed by date strings is iterated: ascending
RECURSIVE DatesInOrder(_)
DatesInOrder(S) ==
    IF S = {} THEN <<>>
    ELSE LET d == CHOOSE x \in S :
                      \A y \in S : toordinal(x.iso) <= toordinal(y.iso)
         IN  <<d>> \o DatesInOrder(S \ {d})

\* lines 84-100: the dates of one campsite entry that are appended
AvailableOf(campsite_data, ctype, cids) ==
    SelectSeq(DatesInOrder(DOMAIN campsite_data.availabilities),
              LAMBDA date :
                  /\ campsite_data.availabilities[date] = "Available"
                  /\ ~(ctype # "" /\ ctype # campsite_data.campsite_type)
                  /\ ~(Len(cids) > 0
                       /\ int_of(campsite_data.campsite_id) \notin SeqRange(cids)))

\* a slip in lines 101-102: the month's dates replace the earlier months'
AccumulateOverwrite(a, avail) == IF avail # <<>> THEN avail ELSE a

\* lines 101-102: a += available
Accumulate(a, avail) == a \o avail

\* dict.setdefault(key, default)
SetDefault(d, key, default) ==
    IF key \in DOMAIN d THEN d
    ELSE [k \in DOMAIN d \cup {key} |-> IF k = key THEN default ELSE d[k]]

\* lines 78-82: the entry without availabilities, quantities and campsite_id
CampsiteInfo(campsite_data) ==
    [campsite_type |-> campsite_data.campsite_type,
     loop |-> campsite_data.loop,
     site |-> campsite_data.site]

\* lines 72-102 for the campsites of one month, in order
RECURSIVE CollapseSites(_, _, _, _, _)
CollapseSites(d, campsites, order, ctype, cids) ==
    IF order = <<>> THEN d
    ELSE LET site == Head(order)
             d1 == SetDefault(d, site, <<>>)
             d2 == [d1 EXCEPT ![site] =
                       Accumulate(@, AvailableOf(campsites[site], ctype, cids))]
         IN  CollapseSites(d2, campsites, Tail(order), ctype, cids)

\* lines 68-102 for `data`
RECURSIVE CollapseData(_, _, _, _)
CollapseData(d, api, ctype, cids) ==
    IF api = <<>> THEN d
    ELSE CollapseData(
             CollapseSites(d, Head(api).campsites,
                           SitesInOrder(DOMAIN Head(api).campsites), ctype, cids),
             Tail(api), ctype, cids)

RECURSIVE CollapseInfoSites(_, _, _)
CollapseInfoSites(d, campsites, order) ==
    IF order = <<>> THEN d
    ELSE CollapseInfoSites(
             SetDefault(d, Head(order), CampsiteInfo(campsites[Head(order)])),
             campsites, Tail(order))

\* lines 69-82 for `data2`
RECURSIVE CollapseInfo(_, _)
CollapseInfo(d, api) ==
    IF api = <<>> THEN d
    ELSE CollapseInfo(
             CollapseInfoSites(d, Head(api).campsites,
                               SitesInOrder(DOMAIN Head(api).campsites)),
             Tail(api))

\* lines 56-62
EnterGetParkInformation ==
    /\ pc = "get_park_information"
    /\ months' = MonthsOfWindow(start_date, end_date)
    /\ api_data' = <<>>
    /\ data' = <<>>
    /\ data2' = <<>>
    /\ pc' = "fetch_loop"
    /\ UNCHANGED <<caller, nights, nightsVars, sitesVars, windowVars, park_id,
                   campsite_type, campsite_ids, fetch_log, site_type, mainVars>>

\* lines 63-64: the next month is requested and answered
FetchMonth ==
    /\ pc = "fetch_loop"
    /\ Len(api_data) < Len(months)
    /\ LET month_date == months[Len(api_data) + 1]
       IN  /\ fetch_log' = Append(fetch_log, <<park_id, month_date, "ok">>)
           /\ \E response \in Responses(month_date) :
                  api_data' = Append(api_data, response)
    /\ UNCHANGED <<pc, caller, nights, nightsVars, sitesVars, windowVars, park_id,
                   campsite_type, campsite_ids, months, data, data2, site_type,
                   mainVars>>

\* a slip in lines 63-64: the failure swallowed, the month taken as empty
FetchFailsCaught ==
    /\ pc = "fetch_loop"
    /\ Len(api_data) < Len(months)
    /\ fetch_log' = Append(fetch_log,
                           <<park_id, months[Len(api_data) + 1], "error">>)
    /\ api_data' = Append(api_data, [campsites |-> <<>>])
    /\ UNCHANGED <<pc, caller, nights, nightsVars, sitesVars, windowVars, park_id,
                   campsite_type, campsite_ids, months, data, data2, site_type,
                   mainVars>>

\* lines 63-64: the next month is requested and get_availability raises; no
\* try/except encloses the call here, in check_park or in main
FetchFails ==
    /\ pc = "fetch_loop"
    /\ Len(api_data) < Len(months)
    /\ fetch_log' = Append(fetch_log,
                           <<park_id, months[Len(api_data) + 1], "error">>)
    /\ error' = "fetch"
    /\ pc' = "raised"
    /\ UNCHANGED <<caller, nights, nightsVars, sitesVars, windowVars, park_id,
                   campsite_type, campsite_ids, months, api_data, data, data2,
                   site_type, parks, park_i, park_name, info_by_park_id,
                   output_html>>

\* lines 66-107
Collapse ==
    /\ pc = "fetch_loop"
    /\ Len(api_data) = Len(months)
    /\ data' = CollapseData(<<>>, api_data, campsite_type, campsite_ids)
    /\ data2' = CollapseInfo(<<>>, api_data)
    /\ pc' = IF caller = "check_park" THEN "get_park_name" ELSE "collapsed"
    /\ UNCHANGED <<caller, nights, nightsVars, sitesVars, windowVars, park_id,
                   campsite_type, campsite_ids, months, api_data, fetch_log,
                   site_type, mainVars>>

-----------------------------------------------------------------------------
(* SpecPark: get_park_information applied to bounded windows and filters *)

WindowEnds == {<<2023, 11, 20>>, <<2023, 12, 1>>, <<2023, 12, 31>>, <<2024, 1, 1>>}

CampsiteTypes == {"TENT", "RV"}

InitPark ==
    /\ pc = "get_park_information"
    /\ caller = ""
    /\ park_id = 232447
    /\ start_date \in WindowEnds
    /\ end_date \in WindowEnds
    /\ campsite_type \in {"", "TENT"}
    /\ campsite_ids \in {<<>>, <<101>>}
    /\ site_type \in {f \in [SiteKeys -> CampsiteTypes] :
                         f[[str |-> 101]] # f[[str |-> 102]]}
    /\ months = <<>>
    /\ api_data = <<>>
    /\ data = <<>>
    /\ data2 = <<>>
    /\ fetch_log = <<>>
    /\ nights = 0
    /\ available = <<>>
    /\ ranges = <<>>
    /\ IdleSites
    /\ IdleMain

NextPark == EnterGetParkInformation \/ FetchMonth \/ FetchFails \/ Collapse

SpecPark == InitPark /\ [][NextPark]_vars

-----------------------------------------------------------------------------
(* check_park, getOutputData, generate_html_output, main *)

\* RecreationClient.get_park_name(park_id) when it answers: the facility name
FacilityName(id) == [kind |-> "name", of |-> id]

\* dict[key] = value
Put(d, key, value) ==
    [k \in DOMAIN d \cup {key} |-> IF k = key THEN value ELSE d[k]]

\* line 317: the sort key (k['loop'].lower(), k['site'])
LoopLowerRank == ("a" :> 1) @@ ("B" :> 2)
SiteRank == ("001" :> 1) @@ ("002" :> 2)
SortKeyBefore(x, y) ==
    \/ LoopLowerRank[x.loop] < LoopLowerRank[y.loop]
    \/ /\ LoopLowerRank[x.loop] = LoopLowerRank[y.loop]
       /\ SiteRank[x.site] < SiteRank[y.site]

\* sorted(list, key=...): a stable insertion sort
RECURSIVE InsertSorted(_, _)
InsertSorted(sorted, x) ==
    IF sorted = <<>> THEN <<x>>
    ELSE IF SortKeyBefore(x, Head(sorted))
         THEN <<x>> \o sorted
         ELSE <<Head(sorted)>> \o InsertSorted(Tail(sorted), x)

RECURSIVE SortedSites(_)
SortedSites(list) ==
    IF list = <<>> THEN <<>>
    ELSE InsertSorted(SortedSites(SubSeq(list, 1, Len(list) - 1)), list[Len(list)])

\* the keys of available_dates_by_site_id in insertion order
RECURSIVE KeysInOrder(_)
KeysInOrder(S) ==
    IF S = {} THEN <<>>
    ELSE LET k == CHOOSE x \in S : \A y \in S : x <= y
         IN  <<k>> \o KeysInOrder(S \ {k})

\* lines 308-316: the site entries of one park
SiteData(info, site_id) ==
    LET site_info == info.park_additional_information[[str |-> site_id]]
    IN  [site_id |-> site_id,
         site |-> site_info.site,
         loop |-> site_info.loop,
         campsite_type |-> site_info.campsite_type]

\* lines 300-318
CampgroundData(id, info) ==
    LET keys == KeysInOrder(DOMAIN info.availabilities_filtered)
    IN  [park_id |-> id,
         park_name |-> info.park_name,
         total_sites_count |-> info.maximum,
         available_sites_count |-> info.current,
         available_sites |->
             SortedSites([i \in 1..Len(keys) |-> SiteData(info, keys[i])])]

\* lines 296-323: one entry per park of info_by_park_id, in insertion order
getOutputData(info_by_park) ==
    LET ids == SelectSeq([i \in 1..Len(parks) |-> parks[i].id],
                         LAMBDA id : id \in DOMAIN info_by_park)
    IN  [i \in 1..Len(ids) |-> CampgroundData(ids[i], info_by_park[ids[i]])]

\* lines 362-389: the document, as the data it is rendered from
generate_html_output(output_data) ==
    [start |-> start_date, end |-> end_date, parks |-> output_data]

\* lines 411-419: the next park is enabled; check_park is entered
StartCheckPark ==
    /\ pc = "main_loop"
    /\ park_i <= Len(parks)
    /\ parks[park_i].check
    /\ park_id' = parks[park_i].id
    /\ campsite_type' = ""
    /\ campsite_ids' = <<>>
    /\ pc' = "get_park_information"
    /\ UNCHANGED <<caller, nights, nightsVars, sitesVars, windowVars, months,
                   api_data, data, data2, fetch_log, site_type, mainVars>>

\* lines 411-412: the next park is not enabled
SkipPark ==
    /\ pc = "main_loop"
    /\ park_i <= Len(parks)
    /\ ~parks[park_i].check
    /\ park_i' = park_i + 1
    /\ UNCHANGED <<pc, caller, nights, nightsVars, sitesVars, windowVars, parkVars,
                   parks, park_name, info_by_park_id, output_html, error>>

\* lines 207-210: the name is resolved; get_num_available_sites is entered
\* with nights=None
GetParkName ==
    /\ pc = "get_park_name"
    /\ park_name' = FacilityName(park_id)
    /\ park_information' = data
    /\ nights_arg' = <<>>
    /\ pc' = "get_num_available_sites"
    /\ UNCHANGED <<caller, nights, nightsVars, maximum, num_available, num_days,
                   dates, todo, by_site, windowVars, parkVars, parks, park_i,
                   info_by_park_id, output_html, error>>

\* line 207: get_park_name raises; no try/except encloses the call in
\* check_park or in main
GetParkNameFails ==
    /\ pc = "get_park_name"
    /\ error' = "name"
    /\ pc' = "raised"
    /\ UNCHANGED <<caller, nights, nightsVars, sitesVars, windowVars, parkVars,
                   parks, park_i, park_name, info_by_park_id, output_html>>

\* lines 211 and 413: check_park returns and main stores the tuple
StoreParkInfo ==
    /\ pc = "check_park_return"
    /\ info_by_park_id' =
           Put(info_by_park_id, park_id,
               [current |-> num_available,
                maximum |-> maximum,
                availabilities_filtered |-> by_site,
                park_name |-> park_name,
                park_additional_information |-> data2])
    /\ park_i' = park_i + 1
    /\ pc' = "main_loop"
    /\ UNCHANGED <<caller, nights, nightsVars, sitesVars, windowVars, parkVars,
                   parks, park_name, output_html, error>>

\* lines 421-432: the loop is over; the report is built and written
WriteReport ==
    /\ pc = "main_loop"
    /\ park_i > Len(parks)
    /\ output_html' = <<generate_html_output(getOutputData(info_by_park_id))>>
    /\ pc' = "done"
    /\ UNCHANGED <<caller, nights, nightsVars, sitesVars, windowVars, parkVars,
                   parks, park_i, park_name, info_by_park_id, error>>

-----------------------------------------------------------------------------
(* Spec: main over two parks *)

ParkIds == <<232447, 232450>>

\* a two-month window over a one-site park, a one-month window over two sites
MainInputs ==
    {[start |-> <<2023, 12, 31>>, end |-> <<2024, 1, 2>>,
      types |-> ([str |-> 101] :> "TENT")],
     [start |-> <<2024, 1, 1>>, end |-> <<2024, 1, 2>>,
      types |-> ([str |-> 101] :> "TENT") @@ ([str |-> 102] :> "RV")]}

Init ==
    /\ pc = "main_loop"
    /\ caller = "check_park"
    /\ parks \in {[i \in 1..Len(ParkIds) |-> [id |-> ParkIds[i], check |-> c[i]]] :
                     c \in [1..Len(ParkIds) -> BOOLEAN]}
    /\ park_i = 1
    /\ \E in \in MainInputs :
          /\ start_date = in.start
          /\ end_date = in.end
          /\ site_type = in.types
    /\ park_name = [kind |-> "none", of |-> 0]
    /\ info_by_park_id = <<>>
    /\ output_html = <<>>
    /\ error = ""
    /\ nights = 0
    /\ available = <<>>
    /\ ranges = <<>>
    /\ IdleSites
    /\ IdlePark

Next ==
    \/ StartCheckPark
    \/ SkipPark
    \/ EnterGetParkInformation
    \/ FetchMonth
    \/ FetchFails
    \/ Collapse
    \/ GetParkName
    \/ GetParkNameFails
    \/ EnterGetNumAvailableSites
    \/ SiteStep
    \/ ReturnSites
    \/ StoreParkInfo
    \/ WriteReport

Spec == Init /\ [][Next]_vars

-----------------------------------------------------------------------------
(* Properties of consecutive_nights *)

RangeStart(r) == toordinal(r[1].ymd)
RangeEnd(r) == toordinal(r[2].ymd)

\* the days of the input list, as a set of ordinals
AvailableDays == {toordinal(strptime_iso(d)) : d \in SeqRange(available)}

\* C1: every returned (start, checkout) pair has checkout = start + nights
\* days, and each of the nights days start .. checkout-1 is in the input list.
C1_RangeIsNightsAvailableDays ==
    pc = "returned" =>
        \A i \in 1..Len(ranges) :
            /\ RangeEnd(ranges[i]) = RangeStart(ranges[i]) + nights
            /\ \A k \in 0..(nights - 1) :
                   format_iso(fromordinal(RangeStart(ranges[i]) + k))
                       \in SeqRange(available)

\* a call that returned several multi-night ranges, one across a month end
C1_Witness ==
    /\ pc = "returned"
    /\ nights >= 2
    /\ Len(ranges) >= 2
    /\ \E i \in 1..Len(ranges) : ranges[i][1].ymd[2] # ranges[i][2].ymd[2]

\* the windows of n consecutive days contained in the set S of ordinals
SetWindows(S, n) == {s \in S : \A k \in 0..(n - 1) : s + k \in S}

ExpectedRanges ==
    {<<format_input(fromordinal(s)), format_input(fromordinal(s + nights))>> :
        s \in SetWindows(AvailableDays, nights)}

\* C2: the returned ranges are exactly the windows of nights consecutive days
\* contained in the set of input dates, each once, whatever the order and the
\* duplicates of the input list.
C2_RangesAreWindowsOfDateSet ==
    pc = "returned" =>
        /\ SeqRange(ranges) = ExpectedRanges
        /\ Len(ranges) = Cardinality(ExpectedRanges)

\* two ranges share a calendar night
Overlap(r1, r2) == RangeStart(r1) < RangeEnd(r2) /\ RangeStart(r2) < RangeEnd(r1)

RECURSIVE IsSubsequence(_, _, _, _)
\* s[i..] can be read off t[j..] from left to right
IsSubsequence(s, i, t, j) ==
    IF i > Len(s) THEN TRUE
    ELSE IF j > Len(t) THEN FALSE
    ELSE IF s[i] = t[j] THEN IsSubsequence(s, i + 1, t, j + 1)
    ELSE IsSubsequence(s, i, t, j + 1)

IsAscending(s) == \A i, j \in 1..Len(s) : i < j => s[i] <= s[j]
IsStrictlyAscending(s) == \A i, j \in 1..Len(s) : i < j => s[i] < s[j]

RangeStarts == [i \in 1..Len(ranges) |-> RangeStart(ranges[i])]

-----------------------------------------------------------------------------
(* Properties of get_num_available_sites *)

\* the supplied nights is a number inside [1, num_days]
NightsArgValid ==
    /\ nights_arg # <<>>
    /\ nights_arg[1] >= 1
    /\ nights_arg[1] <= toordinal(end_date) - toordinal(start_date)

\* the ordinals of the window [start_date, end_date)
WindowDays == toordinal(start_date)..(toordinal(end_date) - 1)

\* the days of the site's list, as a set of ordinals
SiteDays(site) ==
    {toordinal(strptime_iso(d)) : d \in SeqRange(park_information[site])}

\* the clamp of C4 alone: an unset or out-of-range nights becomes num_days, a
\* value inside [1, num_days] is kept.
NightsClamped ==
    pc \in {"site_loop", "counted"} =>
        /\ num_days = toordinal(end_date) - toordinal(start_date)
        /\ nights = IF NightsArgValid THEN nights_arg[1] ELSE num_days

\* C4: nights outside [1, num_days] (or unset) is replaced by num_days and a
\* value inside is kept; so with nights unset or invalid a site that is
\* available on every day of a (non-empty) window gets exactly one range, from
\* start_date to end_date.
C4_ClampToWindowGivesOneRange ==
    pc = "counted" =>
        /\ nights = IF NightsArgValid THEN nights_arg[1] ELSE num_days
        /\ (~NightsArgValid /\ num_days >= 1) =>
              \A site \in DOMAIN park_information :
                  WindowDays \subseteq SiteDays(site) =>
                      /\ int_of(site) \in DOMAIN by_site
                      /\ by_site[int_of(site)] =
                            <<[start |-> format_input(start_date),
                               end |-> format_input(end_date)]>>

\* the sites for which the loop found at least one range
SitesWithRanges ==
    {site \in DOMAIN park_information :
        LET desired == DesiredAvailable(park_information[site], dates)
        IN  desired # <<>> /\ consecutive_nights(desired, nights) # <<>>}

\* C5: maximum is the number of sites of the map, current the number of
\* sites with at least one range, the mapping has a key for exactly those
\* sites; a site with no date in the window or with no nights consecutive
\* days in the window is absent.
C5_CountsMatchMapping ==
    pc = "counted" =>
        /\ maximum = Cardinality(DOMAIN park_information)
        /\ num_available = Cardinality(SitesWithRanges)
        /\ DOMAIN by_site = {int_of(site) : site \in SitesWithRanges}
        /\ num_available = Cardinality(DOMAIN by_site)
        /\ num_available <= maximum
        /\ \A k \in DOMAIN by_site : by_site[k] # <<>>
        /\ \A site \in DOMAIN park_information :
              (\/ SiteDays(site) \cap WindowDays = {}
               \/ SetWindows(SiteDays(site) \cap WindowDays, nights) = {})
                  => int_of(site) \notin DOMAIN by_site

\* two sites, one with a range and one with dates but no long enough run
C5_Witness ==
    /\ pc = "counted"
    /\ maximum = 2
    /\ num_available = 1
    /\ \E site \in DOMAIN park_information :
          /\ int_of(site) \notin DOMAIN by_site
          /\ SiteDays(site) \cap WindowDays # {}

\* the site id string of a key of the mapping
SiteOfKey(k) == CHOOSE site \in DOMAIN park_information : int_of(site) = k

\* C6: every night of every returned range lies in [start_date, end_date)
\* and is a date of the site's list, every checkout date is <= end_date, and a
\* site whose dates all lie outside the window does not count as available.
C6_RangesInsideWindow ==
    pc = "counted" =>
        /\ \A k \in DOMAIN by_site : \A i \in 1..Len(by_site[k]) :
              LET first == toordinal(by_site[k][i].start.ymd)
                  checkout == toordinal(by_site[k][i].end.ymd)
              IN  /\ first < checkout
                  /\ toordinal(start_date) <= first
                  /\ checkout <= toordinal(end_date)
                  /\ first..(checkout - 1) \subseteq SiteDays(SiteOfKey(k))
        /\ num_available =
              Cardinality({site \in DOMAIN park_information :
                             int_of(site) \in DOMAIN by_site
                             /\ SiteDays(site) \cap WindowDays # {}})

\* a counted site that also has dates before start_date and on end_date
C6_Witness ==
    /\ pc = "counted"
    /\ \E site \in DOMAIN park_information :
          /\ int_of(site) \in DOMAIN by_site
          /\ \E n \in SiteDays(site) : n < toordinal(start_date)
    /\ \E site \in DOMAIN park_information :
          /\ int_of(site) \in DOMAIN by_site
          /\ toordinal(end_date) \in SiteDays(site)

-----------------------------------------------------------------------------
(* Properties of get_park_information *)

\* the entry passes the optional type filter and the optional allow-list
PassesFilters(campsite_data) ==
    /\ (campsite_type = "" \/ campsite_data.campsite_type = campsite_type)
    /\ (campsite_ids = <<>>
        \/ \E i \in 1..Len(campsite_ids) :
               campsite_ids[i] = int_of(campsite_data.campsite_id))

\* some fetched month marks `date` Available for `site`
MarkedAvailable(site, date) ==
    \E i \in 1..Len(api_data) :
        /\ site \in DOMAIN api_data[i].campsites
        /\ date \in DOMAIN api_data[i].campsites[site].availabilities
        /\ api_data[i].campsites[site].availabilities[date] = "Available"
        /\ PassesFilters(api_data[i].campsites[site])

AllSampleDates == UNION {SampleDates(months[i]) : i \in 1..Len(months)}

\* C7: the list returned for a site holds a date iff some fetched month marks
\* it Available for the site and the site passes the type filter and the
\* allow-list; a site has a list iff some month reports it.
C7_DataIsAvailableDates ==
    pc = "collapsed" =>
        /\ DOMAIN data =
              UNION {DOMAIN api_data[i].campsites : i \in 1..Len(api_data)}
        /\ \A site \in DOMAIN data :
              /\ \A date \in SeqRange(data[site]) : MarkedAvailable(site, date)
              /\ \A date \in AllSampleDates :
                    MarkedAvailable(site, date) => date \in SeqRange(data[site])

\* a site with Available dates from two months, next to a Reserved date and
\* to a site with an Available date that a filter removes
C7_Witness ==
    /\ pc = "collapsed"
    /\ \E site \in DOMAIN data :
          \E d1, d2 \in SeqRange(data[site]) : d1.iso[2] # d2.iso[2]
    /\ \E site \in DOMAIN data : \E i \in 1..Len(api_data) :
          /\ site \in DOMAIN api_data[i].campsites
          /\ \E date \in DOMAIN api_data[i].campsites[site].availabilities :
                /\ api_data[i].campsites[site].availabilities[date] = "Available"
                /\ date \notin SeqRange(data[site])
    /\ \E site \in DOMAIN data : \E i \in 1..Len(api_data) :
          /\ site \in DOMAIN api_data[i].campsites
          /\ data[site] # <<>>
          /\ \E date \in DOMAIN api_data[i].campsites[site].availabilities :
                api_data[i].campsites[site].availabilities[date] = "Reserved"

\* months counted from year 0: the month of dt
MonthIndex(dt) == dt[1] * 12 + (dt[2] - 1)

\* the first days of the calendar months that have a day in [start, end]
MonthsTouched(start, end) ==
    {<<k \div 12, (k % 12) + 1, 1>> : k \in MonthIndex(start)..MonthIndex(end)}

\* C8: for start_date <= end_date the requests issued are one per calendar
\* month touched by [start_date, end_date] and no other, each for the first
\* day of its month, in ascending month order.
C8_OneFetchPerMonthTouched ==
    (pc = "collapsed" /\ toordinal(start_date) <= toordinal(end_date)) =>
        /\ {fetch_log[i][2] : i \in 1..Len(fetch_log)}
              = MonthsTouched(start_date, end_date)
        /\ \A i \in 1..Len(fetch_log) :
              /\ fetch_log[i][1] = park_id
              /\ fetch_log[i][2][3] = 1
        /\ \A i, j \in 1..Len(fetch_log) :
              i < j => toordinal(fetch_log[i][2]) < toordinal(fetch_log[j][2])
        /\ Len(api_data) = Len(fetch_log)

\* a window from the middle of a month to the first day of the month after
\* the next, across a year end
C8_Witness ==
    /\ pc = "collapsed"
    /\ Len(fetch_log) = 3
    /\ start_date[3] # 1
    /\ end_date[3] = 1
    /\ start_date[1] # end_date[1]

-----------------------------------------------------------------------------
(* Properties of main *)

EnabledParks == {parks[i].id : i \in {j \in 1..Len(parks) : parks[j].check}}

\* every month of the window of every enabled park was fetched and answered
AllFetchesSucceeded ==
    \A id \in EnabledParks : \A m \in MonthsTouched(start_date, end_date) :
        <<id, m, "ok">> \in SeqRange(fetch_log)

\* a failed fetch is the last request of the run, ends it, and leaves no
\* report; a report is there only after every fetch has succeeded
FetchFailureIsFinal ==
    /\ \A i \in 1..Len(fetch_log) :
          fetch_log[i][3] = "error" =>
              /\ i = Len(fetch_log)
              /\ pc = "raised"
              /\ error = "fetch"
              /\ output_html = <<>>
    /\ pc = "raised" => output_html = <<>>
    /\ output_html # <<>> =>
          /\ pc = "done"
          /\ error = ""
          /\ AllFetchesSucceeded
          /\ {output_html[1].parks[i].park_id : i \in 1..Len(output_html[1].parks)}
                = EnabledParks

\* C9: a failed availability fetch is neither caught nor retried: the run
\* ends there (no step follows the failure), no later month or park is
\* fetched and no report is written; a report is written only after every
\* fetch of every enabled park has succeeded.
C9_FetchFailureAbortsRun == [][pc # "raised" /\ FetchFailureIsFinal']_vars

\* the second park's fetch fails after the first park was checked completely
C9_Witness ==
    /\ pc = "raised"
    /\ error = "fetch"
    /\ DOMAIN info_by_park_id # {}
    /\ Len(fetch_log) >= 3
    /\ output_html = <<>>

\* C10: the run is only ever aborted by a failed availability fetch, never by
\* the name resolver; when all fetches succeed the report is written with an
\* entry for every enabled park, labelled with the resolved name or, when the
\* name could not be resolved, with the park id.
C10_NameFailureKeepsReport ==
    /\ pc = "raised" => error = "fetch"
    /\ pc = "done" =>
          /\ output_html # <<>>
          /\ \A id \in EnabledParks :
                \E i \in 1..Len(output_html[1].parks) :
                    /\ output_html[1].parks[i].park_id = id
                    /\ output_html[1].parks[i].park_name
                          \in {[kind |-> "name", of |-> id],
                               [kind |-> "id", of |-> id]}

====
